---- MODULE Spec2Model ----
(***************************************************************************)
(* Model of src/main.py: the book summarizer.                              *)
(*                                                                         *)
(*   init_client   reads the credential and builds the client              *)
(*   ask_chat      one logical request: call the backend, retry with       *)
(*                 exponential backoff on RateLimitError and on an         *)
(*                 APIError whose http_status attribute is 5xx, re-raise   *)
(*                 anything else                                           *)
(*   main          existence check, rights check, chapter count, the       *)
(*                 per-chapter title and summary requests, the report      *)
(*                                                                         *)
(* Text is a sequence of one-character strings, so that strip, lower,      *)
(* startswith, the substring test and the digit search are computed the    *)
(* way the code computes them.  The backend, the console, the clock and    *)
(* the environment variable are the environment: every value they can      *)
(* hand to the program is drawn from a bounded set.                        *)
(***************************************************************************)
EXTENDS Integers, Sequences, FiniteSets, TLC

VARIABLES
    pc,             \* position of main
    exc,            \* the exception that ended main, or None
    api_key,        \* os.getenv("OPENAI_API_KEY")
    client,         \* TRUE once init_client has returned a client
    book_title,     \* main.book_title
    total_tokens,   \* main.total_tokens
    chapter_count,  \* main.chapter_count, None until parsed
    i,              \* main's loop variable
    chapter_title,  \* main.chapter_title of the current iteration
    titles,         \* main.titles
    summaries,      \* main.summaries
    file,           \* the output file, None while it does not exist
    opens,          \* number of times the output file has been opened
    out,            \* the last line printed
    requests,       \* ask_chat invocations so far, in order
    ask,            \* state of the current ask_chat invocation
    backoff,        \* ask_chat.backoff
    sleeps,         \* durations of the time.sleep calls of this invocation
    calls,          \* backend calls made by this invocation
    faults,         \* failures the backend answered in this invocation
    result,         \* the tuple ask_chat returned, <<>> before it returns
    answer,         \* what the backend answered to the latest call
    returns,        \* ask_chat invocations that have returned
    spent           \* sum of resp.usage.total_tokens over the responses received

vars == <<pc, exc, api_key, client, book_title, total_tokens, chapter_count, i,
          chapter_title, titles, summaries, file, opens, out, requests, ask,
          backoff, sleeps, calls, faults, result, answer, returns, spent>>

mainVars == <<pc, exc, api_key, client, book_title, total_tokens, chapter_count,
              i, chapter_title, titles, summaries, file, opens, requests>>

None == "None"
NoExc == [cls |-> None]
NoFile == [exists |-> FALSE]
NoCount == 0 - 1
NoResult == <<>>
NoAnswer == [cls |-> None]
\* a failure that carries no HTTP status: None, falsy like 0
NoStatus == 0

(***************************************************************************)
(* Bounds of the model.                                                    *)
(***************************************************************************)
\* failures the backend answers to one ask_chat invocation, at most
MaxRetries == 7
\* largest chapter count the backend's reply parses to
MaxChapters == 2
\* length of the generated reply texts
MaxLen == 2

(***************************************************************************)
(* Program constants.                                                      *)
(***************************************************************************)
\* the delay left over by the previous invocation (backoff kept outside ask_chat)
InitialBackoffKept == IF backoff = 0 THEN 1 ELSE backoff

InitialBackoff == 1
MaxBackoff == 60
ServerErrorLow == 500
ServerErrorHigh == 600

(***************************************************************************)
(* Text.                                                                   *)
(***************************************************************************)
Strings(A, n) == UNION {[1..k -> A] : k \in 0..n}

Min(a, b) == IF a <= b THEN a ELSE b

\* str.isspace of one character
IsSpace(c) == c \in {" ", "\t"}

RECURSIVE LStrip(_)
LStrip(s) == IF s = <<>> THEN s
             ELSE IF IsSpace(Head(s)) THEN LStrip(Tail(s)) ELSE s

RECURSIVE RStrip(_)
RStrip(s) == IF s = <<>> THEN s
             ELSE IF IsSpace(s[Len(s)]) THEN RStrip(SubSeq(s, 1, Len(s) - 1))
             ELSE s

\* str.strip()
Strip(s) == RStrip(LStrip(s))

UpperLetters == <<"A", "B", "C", "D", "E", "F", "G", "H", "I", "J", "K", "L", "M",
                  "N", "O", "P", "Q", "R", "S", "T", "U", "V", "W", "X", "Y", "Z">>
LowerLetters == <<"a", "b", "c", "d", "e", "f", "g", "h", "i", "j", "k", "l", "m",
                  "n", "o", "p", "q", "r", "s", "t", "u", "v", "w", "x", "y", "z">>

LowerChar(c) ==
    IF \E k \in DOMAIN UpperLetters : UpperLetters[k] = c
    THEN LowerLetters[CHOOSE k \in DOMAIN UpperLetters : UpperLetters[k] = c]
    ELSE c

\* str.lower()
Lower(s) == [k \in DOMAIN s |-> LowerChar(s[k])]

\* str.startswith(p)
StartsWith(s, p) == Len(s) >= Len(p) /\ SubSeq(s, 1, Len(p)) = p

\* p in s
Contains(s, p) ==
    \E k \in 1..(Len(s) - Len(p) + 1) : SubSeq(s, k, k + Len(p) - 1) = p

NoToken == <<"n", "o">>

DigitChars == {"0", "1", "2", "3", "4", "5", "6", "7", "8", "9"}

\* [1-9]
IsDigitNonZero(c) == c \in DigitChars \ {"0"}

\* \d
IsDigit(c) == c \in DigitChars

DigitVal(c) ==
    CASE c = "0" -> 0 [] c = "1" -> 1 [] c = "2" -> 2 [] c = "3" -> 3
      [] c = "4" -> 4 [] c = "5" -> 5 [] c = "6" -> 6 [] c = "7" -> 7
      [] c = "8" -> 8 [] c = "9" -> 9

RECURSIVE SkipToDigit(_)
SkipToDigit(s) == IF s = <<>> THEN s
                  ELSE IF IsDigit(Head(s)) THEN s ELSE SkipToDigit(Tail(s))

\* re.search(r"\d", text) from the first digit on: one digit only
TakeOneDigit(s) == IF s = <<>> THEN s
                   ELSE IF IsDigit(Head(s)) THEN <<Head(s)>> ELSE <<>>

RECURSIVE TakeDigits(_)
TakeDigits(s) == IF s = <<>> THEN s
                 ELSE IF IsDigit(Head(s)) THEN <<Head(s)>> \o TakeDigits(Tail(s))
                 ELSE <<>>

\* re.search(r"\d+", text): the leftmost, longest run of digits; <<>> for no match
SearchDigits(s) == TakeDigits(SkipToDigit(s))

\* int() of a run of decimal digits
RECURSIVE ParseInt(_)
ParseInt(ds) == IF ds = <<>> THEN 0
                ELSE 10 * ParseInt(SubSeq(ds, 1, Len(ds) - 1)) + DigitVal(ds[Len(ds)])

\* str.isalnum of one character (ASCII)
IsAlnum(c) ==
    \/ IsDigit(c)
    \/ \E k \in DOMAIN UpperLetters : c = UpperLetters[k] \/ c = LowerLetters[k]

\* c if c.isalnum() else "_"
SanitizeCharAlnumOnly(c) == IF IsAlnum(c) THEN c ELSE "_"

SanitizeChar(c) == IF IsAlnum(c) \/ c \in {" ", "_", "-"} THEN c ELSE "_"

\* "".join(c if c.isalnum() or c in " _-" else "_" for c in book_title)
SafeName(t) == [k \in DOMAIN t |-> SanitizeChar(t[k])]

OutPath(t) == SafeName(t) \o <<"_summaries.txt">>

(***************************************************************************)
(* The environment: what the backend, the console, the clock and the       *)
(* process environment can hand to the program.                            *)
(***************************************************************************)
\* OPENAI_API_KEY: unset, empty, or a non-empty string
Credentials == {None, "", " ", "sk-test"}

\* what input() returns for the book title
RawTitles == {<<" ", "a", "/", "B", " ">>, <<"-", "_", "7", "?">>}

\* time.strftime('%Y-%m-%d %H:%M:%S')
Timestamps == {"2025-01-01 00:00:00"}

\* resp.usage.total_tokens
Tokens == {1, 2}

\* titles typed at the prompt, for the runs that start at the chapter-count reply
TitleAlphabet == {"a", "B", "7", " ", "_", "-", "/", "?", "."}
WideTitles == Strings(TitleAlphabet, MaxLen + 1)

YesNoAlphabet == {" ", "n", "N", "o", "y"}
CountAlphabet == {" ", "c", "0", "1", "2", "3"}

YesIKnowIt == <<"Y", "e", "s", ",", " ", "I", " ", "k", "n", "o", "w", " ", "i", "t">>
NoUnfamiliar == <<"N", "o", ",", " ", "u", "n", "f", "a", "m", "i", "l", "i", "a", "r">>
YesPlain == <<" ", "Y", "e", "s", ".", " ">>
NoIDontKnow ==
    <<"N", "o", ",", " ", "I", " ", "d", "o", "n", "'", "t", " ", "k", "n", "o", "w", " ", "t", "h", "i", "s", " ", "b", "o", "o", "k">>
NoIDontKnowUpper ==
    <<"N", "O", ",", " ", "I", " ", "D", "O", "N", "'", "T", " ", "K", "N", "O", "W", " ", "T", "H", "I", "S", " ", "B", "O", "O", "K">>
NotSure == <<"n", "O", "t", " ", "s", "u", "r", "e">>
ICannot == <<"I", " ", "c", "a", "n", "n", "o", "t">>
TwoChapters == <<"2", " ", "c", "h", "a", "p", "t", "e", "r", "s", " ", "1", "0">>

TheBookHas24 ==
    <<"T", "h", "e", " ", "b", "o", "o", "k", " ", "h", "a", "s", " ", "2", "4", " ", "c", "h", "a", "p", "t", "e", "r", "s", ".">>

\* chapter-count replies, for the runs that start at the chapter-count reply
WideCountReplies ==
    Strings(CountAlphabet, MaxLen + 1) \cup {TwoChapters, ICannot, TheBookHas24}

\* resp.choices[0].message.content, by the request it answers
KnowsReplies ==
    Strings(YesNoAlphabet, MaxLen)
        \cup {YesIKnowIt, NoUnfamiliar, YesPlain, NoIDontKnow, NoIDontKnowUpper, NotSure}
RightsReplies == Strings(YesNoAlphabet, MaxLen) \cup {YesIKnowIt, YesPlain, ICannot}
CountReplies ==
    {s \in Strings(CountAlphabet, MaxLen) \cup {TwoChapters, ICannot} :
        ParseInt(SearchDigits(s)) <= MaxChapters}
TitleReplies == {<<" ", "t", "\t">>}
SummaryReplies == {<<"x">>, <<" ", "x", "y", " ">>}

ContentFor(kind) ==
    CASE kind = "knows" -> KnowsReplies
      [] kind = "rights" -> RightsReplies
      [] kind = "count" -> CountReplies
      [] kind = "title" -> TitleReplies
      [] kind = "summary" -> SummaryReplies

\* HTTP statuses a failure can carry; NoStatus for a failure without a response
Statuses == {NoStatus, 499, 500, 599, 600}

(* A failure raised by client.chat.completions.create.  cls is the class the
   except clauses match on.  status is the HTTP status of the failed response.
   has_http_status tells whether the exception object carries an attribute
   named http_status (holding that status): ask_chat reads the status with
   getattr(e, "http_status", None), so an exception without the attribute
   reads as None whatever its status is. *)
RateLimitFaults == [cls : {"RateLimitError"}, status : {429}, has_http_status : BOOLEAN]
APIFaults == [cls : {"APIError"}, status : Statuses, has_http_status : BOOLEAN]
OtherFaults == [cls : {"Exception"}, status : {NoStatus}, has_http_status : {FALSE}]

(***************************************************************************)
(* init_client and ask_chat.                                               *)
(***************************************************************************)
\* api_key is None
FalsyNoneOnly(k) == k = None

\* not api_key
Falsy(k) == k = None \/ k = ""

\* getattr(e, "http_status", None)
HttpStatus(e) == IF e.has_http_status THEN e.status ELSE NoStatus

\* the range test without its upper end
IsServerErrorNoUpper(status) == status # NoStatus /\ ServerErrorLow <= status

\* status and 500 <= status < 600
IsServerError(status) ==
    /\ status # NoStatus
    /\ ServerErrorLow <= status
    /\ status < ServerErrorHigh

\* the doubling without its cap
NextBackoffUncapped(b) == b * 2

\* min(backoff * 2, 60)
NextBackoff(b) == Min(b * 2, MaxBackoff)

\* a loop that gives up after three calls
LoopThreeTimes == calls + 1 < 3

\* while True (line 38)
LoopAgain == TRUE

\* k in range(1, n)
InRangeExclusive(k, n) == 1 <= k /\ k < n

\* k in range(1, n + 2)
InRangeInclusive(k, n) == 1 <= k /\ k <= n + 1

\* k in range(1, n + 1) (line 127)
InRange(k, n) == 1 <= k /\ k < n + 1

Request(kind, chapter, system) ==
    [kind |-> kind, chapter |-> chapter, system |-> system]

Helpful == "You are a helpful assistant."
Expert == "You are an expert Hebrew-language summarizer."

\* the request ask_chat is working on
CurrentRequest == requests[Len(requests)]

\* main calls ask_chat: line 37 runs, the loop is about to make its first call
CallAskChat(kind, chapter, system) ==
    /\ requests' = Append(requests, Request(kind, chapter, system))
    /\ ask' = "running"
    /\ backoff' = InitialBackoff
    /\ sleeps' = <<>>
    /\ calls' = 0
    /\ faults' = 0
    /\ result' = NoResult
    /\ answer' = NoAnswer
    /\ UNCHANGED <<returns, spent>>

\* print, time.sleep(backoff), backoff = min(backoff * 2, 60), and the loop goes round
Retry(message) ==
    /\ out' = message
    /\ sleeps' = Append(sleeps, backoff)
    /\ backoff' = NextBackoff(backoff)
    /\ ask' = IF LoopAgain THEN "running" ELSE "left"
    /\ UNCHANGED <<result, returns, spent>>

\* an exception leaves ask_chat; main has no handler, so it ends main too
Raise(e) ==
    /\ ask' = "raised"
    /\ pc' = "failed"
    /\ exc' = e
    /\ UNCHANGED <<out, sleeps, backoff, result, returns, spent>>

\* lines 41-53: the call succeeds
AskSuccess ==
    /\ ask = "running"
    /\ \E content \in ContentFor(CurrentRequest.kind), tok \in Tokens :
          /\ answer' = [cls |-> "ok", content |-> content, total_tokens |-> tok]
          /\ result' = <<Strip(content), tok>>
          /\ spent' = spent + tok
    /\ ask' = "returned"
    /\ returns' = returns + 1
    /\ calls' = calls + 1
    /\ UNCHANGED <<mainVars, out, backoff, sleeps, faults>>

\* lines 55-59: except RateLimitError
AskRateLimit ==
    /\ ask = "running"
    /\ faults < MaxRetries
    /\ \E e \in RateLimitFaults :
          /\ answer' = e
          /\ Retry(<<"Rate limit hit; retrying in", backoff>>)
    /\ calls' = calls + 1
    /\ faults' = faults + 1
    /\ UNCHANGED mainVars

\* lines 61-70: except APIError
AskAPIError ==
    /\ ask = "running"
    /\ \E e \in APIFaults :
          LET status == HttpStatus(e) IN
          /\ answer' = e
          /\ IF IsServerError(status)
             THEN /\ faults < MaxRetries
                  /\ Retry(<<"Server error; retrying in", status, backoff>>)
                  /\ UNCHANGED <<pc, exc>>
             ELSE Raise(e)
    /\ calls' = calls + 1
    /\ faults' = faults + 1
    /\ UNCHANGED <<api_key, client, book_title, total_tokens, chapter_count, i,
                   chapter_title, titles, summaries, file, opens, requests>>

\* an exception that no except clause of ask_chat matches
AskUncaught ==
    /\ ask = "running"
    /\ \E e \in OtherFaults : answer' = e /\ Raise(e)
    /\ calls' = calls + 1
    /\ faults' = faults + 1
    /\ UNCHANGED <<api_key, client, book_title, total_tokens, chapter_count, i,
                   chapter_title, titles, summaries, file, opens, requests>>

(***************************************************************************)
(* main.                                                                   *)
(***************************************************************************)
\* knows[0].startswith("no")
KnowsNegativeCaseSensitive(text) == StartsWith(text, NoToken)

\* "no" in knows[0].lower()
KnowsNegativeAnywhere(text) == Contains(Lower(text), NoToken)

\* knows[0].lower().startswith("no")
KnowsNegative(text) == StartsWith(Lower(text), NoToken)

\* the tuple with the running total in place of the chapter's token count
ChapterRecordRunningTotal(n, title, text, tokens) ==
    <<n, title, text, total_tokens + tokens>>

\* the tuple with a zero-based chapter number
ChapterRecordZeroBased(n, title, text, tokens) == <<n - 1, title, text, tokens>>

\* lines 148-155: (i, chapter_title, chapter_text, chapter_tokens)
ChapterRecord(n, title, text, tokens) == <<n, title, text, tokens>>

\* "no" in can_translate[0].lower()
RightsNegative(text) == Contains(Lower(text), NoToken)

\* one block of the report: the delimiter line's fields and the body text
Block(rec) == [index |-> rec[1], title |-> rec[2], tokens |-> rec[4], text |-> rec[3]]

\* lines 159-168: what open(out_path, "w") and the writes leave on disk
Report(title, ts, summ) ==
    [exists |-> TRUE,
     path |-> OutPath(title),
     header |-> title,
     created |-> ts,
     blocks |-> [k \in DOMAIN summ |-> Block(summ[k])]]

\* lines 157-172: write the report, print the path and the total, return
WriteReport(summ, total) ==
    /\ \E ts \in Timestamps : file' = Report(book_title, ts, summ)
    /\ opens' = opens + 1
    /\ out' = <<"Total tokens used:", total>>
    /\ pc' = "done"
    /\ UNCHANGED <<ask, backoff, sleeps, calls, faults, result, requests,
                   answer, returns, spent>>

\* lines 78, 80 and init_client (12-22)
InitClient ==
    /\ pc = "start"
    /\ IF Falsy(api_key)
       THEN /\ pc' = "failed"
            /\ exc' = [cls |-> "RuntimeError"]
            /\ UNCHANGED <<client, total_tokens>>
       ELSE /\ pc' = "input"
            /\ client' = TRUE
            /\ total_tokens' = 0
            /\ UNCHANGED exc
    /\ UNCHANGED <<api_key, book_title, chapter_count, i, chapter_title, titles,
                   summaries, file, opens, out, requests, ask, backoff, sleeps,
                   calls, faults, result, answer, returns, spent>>

\* lines 83-89: read the title, ask whether the book is known
ReadTitle ==
    /\ pc = "input"
    /\ \E raw \in RawTitles : book_title' = Strip(raw)
    /\ CallAskChat("knows", 0, Helpful)
    /\ pc' = "knows"
    /\ UNCHANGED <<exc, api_key, client, total_tokens, chapter_count, i,
                   chapter_title, titles, summaries, file, opens, out>>

\* lines 90-101: the existence check, then the rights question
CheckKnows ==
    /\ pc = "knows"
    /\ ask = "returned"
    /\ IF KnowsNegative(result[1])
       THEN /\ out' = <<"ChatGPT states it does not know the book", book_title>>
            /\ pc' = "exit_unknown"
            /\ UNCHANGED <<total_tokens, requests, ask, backoff, sleeps, calls,
                           faults, result, answer, returns, spent>>
       ELSE /\ total_tokens' = total_tokens + result[2]
            /\ CallAskChat("rights", 0, Helpful)
            /\ pc' = "rights"
            /\ UNCHANGED out
    /\ UNCHANGED <<exc, api_key, client, book_title, chapter_count, i,
                   chapter_title, titles, summaries, file, opens>>

\* lines 102-112: the rights check, then the chapter-count question
CheckRights ==
    /\ pc = "rights"
    /\ ask = "returned"
    /\ IF RightsNegative(result[1])
       THEN /\ out' = <<"There is a copyright issue with the book", book_title>>
            /\ pc' = "exit_rights"
            /\ UNCHANGED <<total_tokens, requests, ask, backoff, sleeps, calls,
                           faults, result, answer, returns, spent>>
       ELSE /\ total_tokens' = total_tokens + result[2]
            /\ CallAskChat("count", 0, Helpful)
            /\ pc' = "count"
            /\ UNCHANGED out
    /\ UNCHANGED <<exc, api_key, client, book_title, chapter_count, i,
                   chapter_title, titles, summaries, file, opens>>

\* lines 114-134: parse the chapter count and enter the loop; with no chapter
\* the loop body never runs and lines 157-172 follow at once
ParseCount ==
    /\ pc = "count"
    /\ ask = "returned"
    /\ LET m == SearchDigits(result[1]) IN
       IF m = <<>>
       THEN /\ pc' = "failed"
            /\ exc' = [cls |-> "ValueError"]
            /\ UNCHANGED <<chapter_count, i, titles, summaries, file, opens, out,
                           requests, ask, backoff, sleeps, calls, faults, result,
                           answer, returns, spent>>
       ELSE /\ chapter_count' = ParseInt(m)
            /\ titles' = <<>>
            /\ summaries' = <<>>
            /\ UNCHANGED exc
            /\ IF InRange(1, ParseInt(m))
               THEN /\ i' = 1
                    /\ out' = <<"Summarizing chapter", 1, ParseInt(m)>>
                    /\ CallAskChat("title", 1, Helpful)
                    /\ pc' = "title"
                    /\ UNCHANGED <<file, opens>>
               ELSE /\ WriteReport(<<>>, total_tokens)
                    /\ UNCHANGED i
    /\ UNCHANGED <<api_key, client, book_title, total_tokens, chapter_title>>

\* lines 135-146: keep the title, ask for the detailed summary
TitleDone ==
    /\ pc = "title"
    /\ ask = "returned"
    /\ chapter_title' = result[1]
    /\ total_tokens' = total_tokens + result[2]
    /\ titles' = Append(titles, result[1])
    /\ CallAskChat("summary", i, Expert)
    /\ pc' = "summary"
    /\ UNCHANGED <<exc, api_key, client, book_title, chapter_count, i, summaries,
                   file, opens, out>>

\* lines 147-155, then the next iteration (127-134) or the report (157-172)
SummaryDone ==
    /\ pc = "summary"
    /\ ask = "returned"
    /\ total_tokens' = total_tokens + result[2]
    /\ summaries' = Append(summaries,
                            ChapterRecord(i, chapter_title, result[1], result[2]))
    /\ IF InRange(i + 1, chapter_count)
       THEN /\ i' = i + 1
            /\ out' = <<"Summarizing chapter", i + 1, chapter_count>>
            /\ CallAskChat("title", i + 1, Helpful)
            /\ pc' = "title"
            /\ UNCHANGED <<file, opens>>
       ELSE /\ WriteReport(summaries', total_tokens')
            /\ UNCHANGED i
    /\ UNCHANGED <<exc, api_key, client, book_title, chapter_count, chapter_title,
                   titles>>

(***************************************************************************)
(* The program.                                                            *)
(***************************************************************************)
Init ==
    /\ pc = "start"
    /\ exc = NoExc
    /\ api_key \in Credentials
    /\ client = FALSE
    /\ book_title = <<>>
    /\ total_tokens = 0
    /\ chapter_count = NoCount
    /\ i = 0
    /\ chapter_title = <<>>
    /\ titles = <<>>
    /\ summaries = <<>>
    /\ file = NoFile
    /\ opens = 0
    /\ out = <<>>
    /\ requests = <<>>
    /\ ask = "idle"
    /\ backoff = 0
    /\ sleeps = <<>>
    /\ calls = 0
    /\ faults = 0
    /\ result = NoResult
    /\ answer = NoAnswer
    /\ returns = 0
    /\ spent = 0

Next ==
    \/ InitClient
    \/ ReadTitle
    \/ AskSuccess
    \/ AskRateLimit
    \/ AskAPIError
    \/ AskUncaught
    \/ CheckKnows
    \/ CheckRights
    \/ ParseCount
    \/ TitleDone
    \/ SummaryDone

Spec == Init /\ [][Next]_vars

(* main at line 112, the reply to the chapter-count request just returned at
   the first call: the title read at line 83 and the reply are drawn from wider
   sets than in Init, and the only step is lines 114-134 (with lines 157-172
   when there is no chapter), so that a large count starts no long run. *)
CountInit ==
    /\ pc = "count"
    /\ exc = NoExc
    /\ api_key = "sk-test"
    /\ client = TRUE
    /\ \E content \in WideCountReplies, tok \in Tokens :
          /\ \/ book_title \in {Strip(raw) : raw \in WideTitles} /\ content = <<"0">>
             \/ book_title \in {Strip(raw) : raw \in RawTitles}
          /\ answer = [cls |-> "ok", content |-> content, total_tokens |-> tok]
          /\ result = <<Strip(content), tok>>
          /\ spent = 2 + tok
    /\ total_tokens = 2
    /\ chapter_count = NoCount
    /\ i = 0
    /\ chapter_title = <<>>
    /\ titles = <<>>
    /\ summaries = <<>>
    /\ file = NoFile
    /\ opens = 0
    /\ out = <<>>
    /\ requests = <<Request("knows", 0, Helpful), Request("rights", 0, Helpful),
                    Request("count", 0, Helpful)>>
    /\ ask = "returned"
    /\ backoff = InitialBackoff
    /\ sleeps = <<>>
    /\ calls = 1
    /\ faults = 0
    /\ returns = 3

CountSpec == CountInit /\ [][ParseCount]_vars

\* one thread runs the program: a step that can be taken is taken
FairSpec == Spec /\ WF_vars(Next)

(***************************************************************************)
(* Properties of ask_chat.                                                 *)
(***************************************************************************)
RECURSIVE Pow2(_)
Pow2(n) == IF n = 0 THEN 1 ELSE 2 * Pow2(n - 1)

\* the j-th delay of the schedule 1, 2, 4, 8, 16, 32, 60, 60, ...
ExpectedDelay(j) == IF Pow2(j - 1) <= 60 THEN Pow2(j - 1) ELSE 60

\* every sleep of the invocation so far follows the schedule
OnSchedule == \A j \in 1..Len(sleeps) : sleeps[j] = ExpectedDelay(j)

Blank(c) == c = " " \/ c = "\t"

\* t is raw without its leading and trailing blanks
IsTrimOf(t, raw) ==
    /\ t = <<>> \/ (~Blank(t[1]) /\ ~Blank(t[Len(t)]))
    /\ \E a \in 0..Len(raw) : \E b \in a..Len(raw) :
          /\ t = SubSeq(raw, a + 1, b)
          /\ \A k \in (1..a) \cup ((b + 1)..Len(raw)) : Blank(raw[k])

\* a failed backend call whose HTTP status is 5xx
ServerFault(a) == a.cls = "APIError" /\ 500 <= a.status /\ a.status < 600

\* a failed backend call that is neither a rate-limit fault nor a 5xx fault
FatalFault(a) == a.cls \notin {None, "ok", "RateLimitError"} /\ ~ServerFault(a)

(* C1: an ask_chat invocation that returns after k failed calls returns the
   last answer of the backend, trimmed, with its token count, after exactly k
   sleeps and k + 1 backend calls, the j-th sleep lasting min(2^(j-1), 60)
   seconds; a rate-limit fault never ends the invocation: it is followed by
   one sleep and the loop goes on; a successful call ends it. *)
C1_RetrySchedule ==
    /\ ask = "returned" =>
          /\ answer.cls = "ok"
          /\ IsTrimOf(result[1], answer.content)
          /\ result[2] = answer.total_tokens
          /\ Len(sleeps) = faults
          /\ calls = faults + 1
          /\ OnSchedule
    /\ (ask # "idle" /\ answer.cls = "RateLimitError") =>
          /\ ask = "running"
          /\ Len(sleeps) = faults
          /\ calls = faults
          /\ OnSchedule
    /\ answer.cls = "ok" => ask = "returned"

\* a success after seven faults: the seventh sleep is the capped one
C1_Witness ==
    /\ ask = "returned"
    /\ faults >= 7
    /\ sleeps[6] = 32
    /\ sleeps[7] = 60
    /\ result[1] # answer.content

(* C2: a backend failure with a 5xx status is handled like a rate-limit
   fault: one sleep of the current delay, the delay doubled and capped at 60,
   and a retry; it is never raised to the caller. *)
C2_ServerFaultRetried ==
    (ask # "idle" /\ ServerFault(answer)) =>
        /\ ask = "running"
        /\ Len(sleeps) = faults
        /\ OnSchedule
        /\ backoff = ExpectedDelay(faults + 1)

\* what holds once a fatal failure has been answered
C3_FatalInv ==
    (ask # "idle" /\ FatalFault(answer)) =>
        /\ ask = "raised"
        /\ pc = "failed"
        /\ exc = answer
        /\ calls = faults
        /\ Len(sleeps) = faults - 1

(* C3: a failure that is neither a rate-limit fault nor a 5xx fault leaves
   ask_chat at once as that same exception: no sleep follows it, no further
   backend call is made, however many retried faults came before. *)
C3_FatalPropagates ==
    /\ []C3_FatalInv
    /\ [][ask = "raised" => UNCHANGED vars]_vars

\* a 4xx failure raised after two retried faults
C3_Witness ==
    /\ ask = "raised"
    /\ exc.cls = "APIError"
    /\ exc.status = 499
    /\ exc.has_http_status
    /\ faults = 3
    /\ Len(sleeps) = 2

(***************************************************************************)
(* Properties of main.                                                     *)
(***************************************************************************)
Stopped == pc \in {"failed", "exit_unknown", "exit_rights"}

(* C4: the output file is opened and written only by a run that completes,
   after the existence, rights and chapter-count requests and the 2N chapter
   requests have all returned; a run that ends in an exception or in an early
   exit never opens it, and a run that completes writes it exactly once. *)
C4_WriteOnlyAtEnd ==
    /\ opens <= 1
    /\ file.exists <=> opens = 1
    /\ opens = 1 <=> pc = "done"
    /\ pc = "done" =>
          /\ chapter_count # NoCount
          /\ Len(requests) = 3 + 2 * chapter_count
          /\ returns = Len(requests)
          /\ ask = "returned"
    /\ Stopped => opens = 0 /\ ~file.exists

\* a fatal error at the last of the 3 + 2N requests: nothing is written
C4_Witness ==
    /\ pc = "failed"
    /\ ask = "raised"
    /\ chapter_count = 2
    /\ Len(requests) = 7
    /\ returns = 6
    /\ ~file.exists

CountRequests == {k \in DOMAIN requests : requests[k].kind = "count"}

\* the numbering of the records and of the report's blocks
C5_RecordsInv ==
    /\ \A k \in 1..Len(summaries) : summaries[k][1] = k
    /\ Cardinality(CountRequests) <= 1
    /\ chapter_count # NoCount =>
          /\ Cardinality(CountRequests) = 1
          /\ Len(summaries) <= chapter_count
    /\ pc \in {"title", "summary"} =>
          /\ 1 <= i /\ i <= chapter_count
          /\ Len(summaries) = i - 1
    /\ pc = "done" =>
          /\ Len(summaries) = chapter_count
          /\ Len(file.blocks) = chapter_count
          /\ \A k \in 1..chapter_count :
                /\ file.blocks[k].index = k
                /\ file.blocks[k].title = summaries[k][2]
                /\ file.blocks[k].text = summaries[k][3]

(* C5: the chapter records are numbered 1, 2, 3, ... without gap or
   duplicate; while the loop works on chapter i the records are those of
   chapters 1..i-1; the chapter count comes from one chapter-count request
   and never changes once set; a run that completes has exactly N records and
   the report holds their N blocks in the same order. *)
C5_ChapterRecords ==
    /\ []C5_RecordsInv
    /\ [][chapter_count # NoCount => chapter_count' = chapter_count]_vars

\* a completed run of two chapters
C5_Witness ==
    /\ pc = "done"
    /\ chapter_count = 2
    /\ Len(file.blocks) = 2
    /\ file.blocks[2].index = 2

\* the trimmed reply starts with "no" in any letter case
StartsWithNo(t) == Len(t) >= 2 /\ t[1] \in {"n", "N"} /\ t[2] \in {"o", "O"}

\* the state of the unknown-book exit
C6_UnknownInv ==
    pc = "exit_unknown" =>
        /\ Len(requests) = 1
        /\ returns = 1
        /\ StartsWithNo(result[1])
        /\ ~file.exists
        /\ opens = 0
        /\ out = <<"ChatGPT states it does not know the book", book_title>>

(* C6: a negative reply to the existence check ends main in the unknown-book
   exit: no request follows the first one, no file is written, and the last
   line printed is the message that ChatGPT does not know the book. *)
C6_UnknownBookExit ==
    /\ []C6_UnknownInv
    /\ [][(pc = "knows" /\ ask = "returned" /\ StartsWithNo(result[1]))
             => pc' = "exit_unknown"]_vars
    /\ [][pc = "exit_unknown" => UNCHANGED vars]_vars

\* the reply "No, unfamiliar" ended the run
C6_Witness ==
    /\ pc = "exit_unknown"
    /\ answer.content = NoUnfamiliar
    /\ Len(requests) = 1

\* the reply answers the yes-or-no question with "yes", in any letter case
IsAffirmative(t) ==
    /\ Len(t) >= 3
    /\ t[1] \in {"y", "Y"}
    /\ t[2] \in {"e", "E"}
    /\ t[3] \in {"s", "S"}

(* C7: the rights-issue exit is taken only on a reply to the rights check
   that carries a negative signal, with exactly two requests issued and no
   file written; an affirmative reply never leads to the rights-issue exit. *)
C7_RightsGate ==
    pc = "exit_rights" =>
        /\ Len(requests) = 2
        /\ returns = 2
        /\ ~file.exists
        /\ ~IsAffirmative(result[1])

HasDigit(t) == \E k \in 1..Len(t) : t[k] \in DigitChars

\* the state after the parse error
C8_ParseInv ==
    (pc = "failed" /\ exc.cls = "ValueError") =>
        /\ Len(requests) = 3
        /\ requests[3].kind = "count"
        /\ returns = 3
        /\ ask = "returned"
        /\ ~HasDigit(result[1])
        /\ summaries = <<>>
        /\ ~file.exists
        /\ opens = 0

(* C8: a chapter-count reply without a decimal digit ends main with a
   ValueError before any chapter request: three requests have been made, the
   chapter-count request is not issued again, no file is written. *)
C8_ParseErrorAborts ==
    /\ []C8_ParseInv
    /\ [][(pc = "count" /\ ask = "returned" /\ ~HasDigit(result[1]))
             => (pc' = "failed" /\ exc'.cls = "ValueError" /\ requests' = requests)]_vars
    /\ [][pc = "failed" => UNCHANGED vars]_vars

\* the reply "I cannot" to the chapter-count request
C8_Witness ==
    /\ pc = "failed"
    /\ exc.cls = "ValueError"
    /\ answer.content = ICannot
    /\ faults = 0

\* how the state of an invocation and the backend's last answer go together
C9_OutcomeInv ==
    /\ ask \in {"idle", "running", "returned", "raised"}
    /\ ask = "returned" => answer.cls = "ok" /\ result # NoResult
    /\ ask = "raised" => answer.cls \notin {None, "ok"} /\ exc = answer
    /\ ask = "running" => answer.cls # "ok" /\ result = NoResult
    /\ answer.cls = "RateLimitError" => ask = "running"

(* C9: an ask_chat invocation ends by returning the result of a successful
   backend call or by raising the exception of a failed one, or it is still
   retrying; a rate-limit fault never makes it give up, whatever the number
   of attempts; and when the backend stops answering with retried faults the
   invocation does return or raise: it is never left retrying for good. *)
C9_ReturnsRaisesOrRetries ==
    /\ []C9_OutcomeInv
    /\ []<>(ask # "running")

\* still retrying after seven faults
C9_Witness ==
    /\ ask = "running"
    /\ faults >= 7
    /\ calls = faults

\* the credential is absent or the empty string
NoCredential == api_key = None \/ Len(api_key) = 0

(* C10: init_client raises RuntimeError when the credential is absent or the
   empty string and returns a client for every other value; when it raises,
   main has read no title and issued no request; init_client itself makes no
   backend call. *)
C10_InitClient ==
    /\ (pc # "start" /\ NoCredential) =>
          /\ pc = "failed"
          /\ exc.cls = "RuntimeError"
          /\ ~client
          /\ book_title = <<>>
          /\ requests = <<>>
          /\ calls = 0
          /\ ask = "idle"
    /\ (pc # "start" /\ ~NoCredential) => client /\ exc.cls # "RuntimeError"
    /\ pc = "input" => requests = <<>> /\ calls = 0 /\ answer = NoAnswer

\* the empty credential stopped main
C10_Witness ==
    /\ pc = "failed"
    /\ api_key = ""
    /\ exc.cls = "RuntimeError"
    /\ requests = <<>>

\* after its leading blanks, the reply opens with the letters n, o in any case
NegativeReply(raw) ==
    \E a \in 0..Len(raw) :
        /\ \A k \in 1..a : Blank(raw[k])
        /\ Len(raw) >= a + 2
        /\ raw[a + 1] \in {"n", "N"}
        /\ raw[a + 2] \in {"o", "O"}

\* the unknown-book exit is only ever reached on a reply that opens with "no"
C11_NegativeInv == pc = "exit_unknown" => NegativeReply(answer.content)

(* C11: the existence check takes the reply as negative exactly when the reply,
   trimmed and with its case folded, starts with "no", and as affirmative
   otherwise: "No, I don't know this book" in any letter case ends the run,
   "Yes, I know it" lets main go on to the rights question. *)
C11_ExistenceCheck ==
    /\ []C11_NegativeInv
    /\ [][(pc = "knows" /\ ask = "returned") =>
             IF NegativeReply(answer.content)
             THEN pc' = "exit_unknown" /\ requests' = requests
             ELSE /\ pc' = "rights"
                  /\ Len(requests') = 2
                  /\ total_tokens' = total_tokens + answer.total_tokens]_vars
    /\ [][(pc = "knows" /\ ask = "returned"
              /\ answer.content \in {NoIDontKnow, NoIDontKnowUpper})
             => pc' = "exit_unknown"]_vars
    /\ [][(pc = "knows" /\ ask = "returned" /\ answer.content = YesIKnowIt)
             => pc' = "rights"]_vars

\* the upper-case reply "NO, I DON'T KNOW THIS BOOK" ended the run
C11_Witness ==
    /\ pc = "exit_unknown"
    /\ answer.content = NoIDontKnowUpper
    /\ result[1] = NoIDontKnowUpper

\* the decimal digits in order: the digit of value d is DecimalDigits[d + 1]
DecimalDigits == <<"0", "1", "2", "3", "4", "5", "6", "7", "8", "9">>

DigitOf(c) == CHOOSE d \in 0..9 : DecimalDigits[d + 1] = c

RECURSIVE Pow10(_)
Pow10(n) == IF n = 0 THEN 1 ELSE 10 * Pow10(n - 1)

\* the number written in decimal at positions a..b of s
RECURSIVE DecimalValue(_, _, _)
DecimalValue(s, a, b) ==
    IF a > b THEN 0
    ELSE DigitOf(s[a]) * Pow10(b - a) + DecimalValue(s, a + 1, b)

\* positions a..b of s hold the first contiguous run of digits of s
IsFirstRun(s, a, b) ==
    /\ a <= b
    /\ \A k \in 1..(a - 1) : ~HasDigit(<<s[k]>>)
    /\ \A k \in a..b : HasDigit(<<s[k]>>)
    /\ b = Len(s) \/ ~HasDigit(<<s[b + 1]>>)

(* C12: for a chapter-count reply holding a digit, the chapter count is the
   value of the first contiguous run of decimal digits of the reply, whatever
   text surrounds it and whatever digit runs follow; the loop starts at
   chapter 1 for every positive value, however large ("The book has 24
   chapters." gives 24), and is skipped for the value 0. *)
C12_FirstDigitRun ==
    /\ [][(pc = "count" /\ ask = "returned" /\ HasDigit(answer.content)) =>
             \E a \in 1..Len(answer.content), b \in 1..Len(answer.content) :
                /\ IsFirstRun(answer.content, a, b)
                /\ chapter_count' = DecimalValue(answer.content, a, b)
                /\ IF chapter_count' >= 1
                   THEN /\ pc' = "title"
                        /\ i' = 1
                        /\ out' = <<"Summarizing chapter", 1, chapter_count'>>
                   ELSE pc' = "done"]_vars
    /\ [][(pc = "count" /\ ask = "returned" /\ answer.content = TheBookHas24)
             => chapter_count' = 24]_vars
    /\ [][(pc = "count" /\ ask = "returned" /\ answer.content = TwoChapters)
             => chapter_count' = 2]_vars

\* "The book has 24 chapters." started the loop over 24 chapters
C12_Witness ==
    /\ chapter_count = 24
    /\ pc = "title"
    /\ i = 1
    /\ requests[4] = Request("title", 1, Helpful)

\* a letter, a digit, a space, an underscore or a hyphen of the title alphabet
KeptChar(c) == c \in {"a", "B", "7", " ", "_", "-"}

(* C13: the file is written at the title's sanitized stem followed by
   "_summaries.txt": the stem is as long as the title, equals the title at
   every position holding a letter, a digit, a space, an underscore or a
   hyphen, and holds an underscore at every other position; sanitizing the
   stem again leaves it unchanged. *)
C13_SafeName ==
    file.exists =>
        LET stem == SubSeq(file.path, 1, Len(file.path) - 1) IN
        /\ Len(file.path) = Len(book_title) + 1
        /\ file.path[Len(file.path)] = "_summaries.txt"
        /\ \A k \in 1..Len(book_title) :
              stem[k] = IF KeptChar(book_title[k]) THEN book_title[k] ELSE "_"
        /\ SafeName(stem) = stem
        /\ OutPath(stem) = file.path

\* the title "-/7" was written to "-_7_summaries.txt"
C13_Witness ==
    /\ file.exists
    /\ book_title = <<"-", "/", "7">>
    /\ file.path = <<"-", "_", "7", "_summaries.txt">>
    /\ pc = "done"

(* C14: when main completes, the total it reports is the sum of the token
   counts of all the responses it received: those of the existence, rights
   and chapter-count requests and of every chapter's title and summary
   requests. *)
C14_TotalIsSum ==
    pc = "done" =>
        /\ total_tokens = spent
        /\ out = <<"Total tokens used:", spent>>

\* the k-th request of the fixed order: existence, rights, chapter count, then
\* the title and the summary of chapter 1, of chapter 2, ...
ExpectedRequest(k) ==
    CASE k = 1 -> Request("knows", 0, Helpful)
      [] k = 2 -> Request("rights", 0, Helpful)
      [] k = 3 -> Request("count", 0, Helpful)
      [] k > 3 /\ k % 2 = 0 -> Request("title", (k - 2) \div 2, Helpful)
      [] k > 3 /\ k % 2 = 1 -> Request("summary", (k - 3) \div 2, Expert)

\* the requests issued so far are a prefix of the fixed order, all but possibly
\* the last have returned, and a completed run has issued 3 + 2N of them
C15_OrderInv ==
    /\ \A k \in 1..Len(requests) : requests[k] = ExpectedRequest(k)
    /\ returns <= Len(requests)
    /\ Len(requests) <= returns + 1
    /\ ask = "running" => Len(requests) = returns + 1
    /\ pc = "done" =>
          /\ Len(requests) = 3 + 2 * chapter_count
          /\ returns = Len(requests)

(* C15: main issues its requests one at a time in the fixed order existence,
   rights, chapter count, then title(i) and summary(i) for i = 1..N, all of
   chapter i before any of chapter i + 1; a request is issued only when every
   earlier one has returned, never while one is being retried; a completed
   run has issued exactly 3 + 2N requests. *)
C15_RequestOrder ==
    /\ []C15_OrderInv
    /\ [][requests' # requests =>
             /\ requests' = Append(requests, ExpectedRequest(Len(requests) + 1))
             /\ returns = Len(requests)
             /\ requests = <<>> \/ ask = "returned"
             /\ ask' = "running"]_vars

\* summary(2) is being retried after six requests returned in order
C15_Witness ==
    /\ Len(requests) = 7
    /\ requests[6] = Request("title", 2, Helpful)
    /\ requests[7] = Request("summary", 2, Expert)
    /\ ask = "running"
    /\ faults = 2
    /\ returns = 6

\* an invocation that has made no failed call holds the delay 1, and the first
\* sleep of every invocation lasts 1
C16_FirstDelayInv ==
    /\ (ask = "running" /\ faults = 0) => backoff = 1 /\ sleeps = <<>>
    /\ sleeps # <<>> => sleeps[1] = 1

(* C16: the retry delay is reset for every logical request: each invocation of
   ask_chat starts with the delay 1 and no sleep behind it, whatever delay the
   earlier invocations had reached. *)
C16_DelayReset ==
    /\ []C16_FirstDelayInv
    /\ [][requests' # requests =>
             /\ backoff' = 1
             /\ sleeps' = <<>>
             /\ faults' = 0]_vars

\* the first request last slept for 60, the second one starts with the delay 1
C16_Witness ==
    /\ Len(requests) = 2
    /\ out = <<"Rate limit hit; retrying in", 60>>
    /\ ask = "running"
    /\ faults = 0
    /\ backoff = 1

\* a failed backend call that is a rate-limit fault or a 5xx fault
TransientFault(a) == a.cls = "RateLimitError" \/ ServerFault(a)

(* C17: transient faults are invisible to the pipeline: a backend call that
   fails with a rate-limit fault or a 5xx fault leaves main where it is, with
   its total, its records, its chapter index and the absent file unchanged,
   and the invocation goes on retrying. *)
C17_FaultsInvisible ==
    [][(calls' = calls + 1 /\ TransientFault(answer')) =>
          /\ UNCHANGED mainVars
          /\ ask' = "running"]_vars

\* the first contiguous run of digits of s consists of zeros only
FirstRunIsZero(s) ==
    \E a \in 1..Len(s), b \in 1..Len(s) :
        IsFirstRun(s, a, b) /\ \A k \in a..b : s[k] = "0"

\* a run completed with no chapter
C18_ZeroInv ==
    (pc = "done" /\ chapter_count = 0) =>
        /\ Len(requests) = 3
        /\ returns = 3
        /\ exc = NoExc
        /\ titles = <<>>
        /\ summaries = <<>>
        /\ opens = 1
        /\ file.exists
        /\ file.header = book_title
        /\ file.blocks = <<>>

(* C18: when the chapter-count reply parses to 0, main issues no chapter
   request, three requests in all, and completes normally: it writes the file
   with the header and no chapter block. *)
C18_ZeroChapters ==
    /\ []C18_ZeroInv
    /\ [][(pc = "count" /\ ask = "returned" /\ FirstRunIsZero(answer.content)) =>
             /\ chapter_count' = 0
             /\ pc' = "done"
             /\ requests' = requests
             /\ file'.exists]_vars

\* the reply "00" led to the report without a chapter block
C18_Witness ==
    /\ pc = "done"
    /\ chapter_count = 0
    /\ answer.content = <<"0", "0">>
    /\ file.blocks = <<>>
    /\ Len(requests) = 3

\* the sum of the token costs stored in the chapter records
RECURSIVE SumCosts(_)
SumCosts(summ) ==
    IF summ = <<>> THEN 0
    ELSE summ[Len(summ)][4] + SumCosts(SubSeq(summ, 1, Len(summ) - 1))

\* the stored costs never exceed the run total, and the delimiter line of each
\* chapter block prints the cost stored in that chapter's record
C19_CostInv ==
    /\ SumCosts(summaries) <= total_tokens
    /\ file.exists =>
          /\ Len(file.blocks) = Len(summaries)
          /\ \A k \in 1..Len(summaries) : file.blocks[k].tokens = summaries[k][4]

(* C19: the token cost stored in a chapter's record, and printed in its
   delimiter line, is the token count of that chapter's summary request
   alone; the token count of the title request is added to the run total but
   to no record, so the per-chapter costs sum to at most the run total. *)
C19_ChapterCost ==
    /\ []C19_CostInv
    /\ [][(pc = "summary" /\ ask = "returned") =>
             /\ Len(summaries') = Len(summaries) + 1
             /\ summaries'[Len(summaries')][4] = answer.total_tokens
             /\ total_tokens' = total_tokens + answer.total_tokens]_vars
    /\ [][(pc = "title" /\ ask = "returned") =>
             /\ summaries' = summaries
             /\ total_tokens' = total_tokens + answer.total_tokens]_vars

\* two chapters with title requests of 2 tokens each and summaries of 1 and 2
C19_Witness ==
    /\ pc = "done"
    /\ chapter_count = 2
    /\ file.blocks[1].tokens = 1
    /\ file.blocks[2].tokens = 2
    /\ total_tokens = 2 + 2 + (2 + 1) + (2 + 2)

====
